---- MODULE Spec2Model ----
(***************************************************************************)
(* Model of the content-moderation service: the classifier                 *)
(* (src/ml_classifier.py) and the submission pipeline (src/main.py).       *)
(*                                                                         *)
(* Scores, confidences and thresholds are floats in [0, 1] in the source;  *)
(* here they are integers in hundredths (0.8 is 80, 1.0 is One).           *)
(* A content_id (uuid4 in the source) is the index of the submission.      *)
(*                                                                         *)
(* Spec        the submission pipeline: requests interleave at their       *)
(*             awaits; models and database calls may raise.                *)
(* SpecFair    Spec with the event loop's fairness: a coroutine that can   *)
(*             go on does go on.                                           *)
(* SpecVerdict the verdict engine alone, applied to every score vector.    *)
(* SpecMock    the pipeline with both scorers stubbed to fixed scores.     *)
(* SpecTune    update_thresholds and one classification that runs in the   *)
(*             executor thread, before, during or after the update.        *)
(* SpecPublish post_to_social_media alone, over every configuration.       *)
(* SpecValidate  the ContentSubmission schema alone.                       *)
(* SpecSpam    _detect_spam alone, over measurements of the text.          *)
(* SpecPriority  calculate_priority alone.                                 *)
(***************************************************************************)
EXTENDS Integers, FiniteSets, Sequences, TLC

\* ------------------------------------------------------------ bounds ----
MaxSubmissions == 2
MaxFaults == 1
MaxPad == 2

\* --------------------------------------------------------- constants ----
One == 100
\* Field(..., max_length=...) of content, author_id and platform.
MaxContentLength == 5000
MaxAuthorLength == 100
MaxPlatformLength == 50

Ids == 1..MaxSubmissions
Authors == {"u1", "u2"}
Classifications == {"acceptable", "needs_review", "toxic", "spam"}

VARIABLES
    thresholds,             \* ContentClassifier.thresholds
    pc,                     \* position of each submit_content request
    submission,             \* the validated ContentSubmission of each request
    classification_result,  \* what classifier.classify returned
    action_result,          \* what apply_business_logic returned
    response,               \* what the caller of submit_content received
    background_tasks,       \* the request's BackgroundTasks entry
    content,                \* table content
    audit_log,              \* table audit_log
    moderation_queue,       \* table moderation_queue
    user_notifications,     \* table user_notifications, rows counted per (author, type)
    user_violations,        \* table user_violations, keyed (author, type)
    model_metrics,          \* table model_metrics
    social_media_posts,     \* table social_media_posts
    faults,                 \* failures injected so far
    sv,                     \* a score vector handed to the verdict engine
    verdict,                \* the verdict engine's answer for sv
    social_poster,          \* SocialMediaPoster: which platforms are enabled
    publish_call,           \* what one post_to_social_media call meets
    publish_result,         \* what that call came to
    raw_submission,         \* a request body before validation
    validation,             \* what the ContentSubmission schema made of it
    job,                    \* one _determine_classification run in the executor
    spam_input,             \* what _detect_spam measures of one text
    spam_result,            \* the score _detect_spam returned for it
    priority_input,         \* a classification handed to calculate_priority
    priority_result         \* the priority it returned

dbvars == <<content, audit_log, moderation_queue, user_notifications,
            user_violations, model_metrics, social_media_posts>>
reqvars == <<pc, submission, classification_result, action_result, response,
             background_tasks>>
scorervars == <<spam_input, spam_result, priority_input, priority_result>>
unitvars == <<publish_call, publish_result, raw_submission, validation, job,
              scorervars>>
vars == <<thresholds, reqvars, dbvars, faults, sv, verdict, social_poster,
          unitvars>>

\* ------------------------------------------------- pure helper maths ----
Max(a, b) == IF a >= b THEN a ELSE b
Min(a, b) == IF a <= b THEN a ELSE b
Abs(a) == IF a < 0 THEN 0 - a ELSE a

\* ------------------------------------------------------- classifier -----
DefaultThresholds ==
    [toxicity_high |-> 80, toxicity_medium |-> 60,
     spam_high |-> 70, confidence_low |-> 60]

\* Variants of _determine_classification with one slip each.
\* The spam rule tried before the toxicity rule.
determine_classification_spam_first(th, toxicity_score, spam_score, sentiment_result) ==
    LET confidence ==
            One - Max(IF toxicity_score < 60 THEN Abs(toxicity_score - 50) ELSE 0,
                      IF spam_score < 60 THEN Abs(spam_score - 50) ELSE 0)
    IN  IF spam_score >= th.spam_high
          THEN <<"spam", spam_score>>
        ELSE IF toxicity_score >= th.toxicity_high
          THEN <<"toxic", toxicity_score>>
        ELSE IF toxicity_score >= th.toxicity_medium
          THEN <<"needs_review", Max(toxicity_score, 60)>>
        ELSE IF spam_score >= 50
          THEN <<"needs_review", Max(spam_score, 60)>>
        ELSE IF confidence < th.confidence_low
          THEN <<"needs_review", confidence>>
        ELSE <<"acceptable", confidence>>

\* The medium-toxicity rule tried before the spam rule.
determine_classification_review_first(th, toxicity_score, spam_score, sentiment_result) ==
    LET confidence ==
            One - Max(IF toxicity_score < 60 THEN Abs(toxicity_score - 50) ELSE 0,
                      IF spam_score < 60 THEN Abs(spam_score - 50) ELSE 0)
    IN  IF toxicity_score >= th.toxicity_high
          THEN <<"toxic", toxicity_score>>
        ELSE IF toxicity_score >= th.toxicity_medium
          THEN <<"needs_review", Max(toxicity_score, 60)>>
        ELSE IF spam_score >= th.spam_high
          THEN <<"spam", spam_score>>
        ELSE IF spam_score >= 50
          THEN <<"needs_review", Max(spam_score, 60)>>
        ELSE IF confidence < th.confidence_low
          THEN <<"needs_review", confidence>>
        ELSE <<"acceptable", confidence>>

\* The medium-spam rule without its floor of 0.6 on the confidence.
determine_classification_no_floor(th, toxicity_score, spam_score, sentiment_result) ==
    LET confidence ==
            One - Max(IF toxicity_score < 60 THEN Abs(toxicity_score - 50) ELSE 0,
                      IF spam_score < 60 THEN Abs(spam_score - 50) ELSE 0)
    IN  IF toxicity_score >= th.toxicity_high
          THEN <<"toxic", toxicity_score>>
        ELSE IF spam_score >= th.spam_high
          THEN <<"spam", spam_score>>
        ELSE IF toxicity_score >= th.toxicity_medium
          THEN <<"needs_review", Max(toxicity_score, 60)>>
        ELSE IF spam_score >= 50
          THEN <<"needs_review", spam_score>>
        ELSE IF confidence < th.confidence_low
          THEN <<"needs_review", confidence>>
        ELSE <<"acceptable", confidence>>

\* The low-confidence rule with <= for <.
determine_classification_le(th, toxicity_score, spam_score, sentiment_result) ==
    LET confidence ==
            One - Max(IF toxicity_score < 60 THEN Abs(toxicity_score - 50) ELSE 0,
                      IF spam_score < 60 THEN Abs(spam_score - 50) ELSE 0)
    IN  IF toxicity_score >= th.toxicity_high
          THEN <<"toxic", toxicity_score>>
        ELSE IF spam_score >= th.spam_high
          THEN <<"spam", spam_score>>
        ELSE IF toxicity_score >= th.toxicity_medium
          THEN <<"needs_review", Max(toxicity_score, 60)>>
        ELSE IF spam_score >= 50
          THEN <<"needs_review", Max(spam_score, 60)>>
        ELSE IF confidence <= th.confidence_low
          THEN <<"needs_review", confidence>>
        ELSE <<"acceptable", confidence>>

\* _determine_classification: the pair (classification, confidence).
\* The medium-spam rule with > for >=.
determine_classification_gt(th, toxicity_score, spam_score, sentiment_result) ==
    LET confidence ==
            One - Max(IF toxicity_score < 60 THEN Abs(toxicity_score - 50) ELSE 0,
                      IF spam_score < 60 THEN Abs(spam_score - 50) ELSE 0)
    IN  IF toxicity_score >= th.toxicity_high
          THEN <<"toxic", toxicity_score>>
        ELSE IF spam_score >= th.spam_high
          THEN <<"spam", spam_score>>
        ELSE IF toxicity_score >= th.toxicity_medium
          THEN <<"needs_review", Max(toxicity_score, 60)>>
        ELSE IF spam_score > 50
          THEN <<"needs_review", Max(spam_score, 60)>>
        ELSE IF confidence < th.confidence_low
          THEN <<"needs_review", confidence>>
        ELSE <<"acceptable", confidence>>

\* A strongly negative sentiment sent to review.
determine_classification_sentiment(th, toxicity_score, spam_score, sentiment_result) ==
    LET confidence ==
            One - Max(IF toxicity_score < 60 THEN Abs(toxicity_score - 50) ELSE 0,
                      IF spam_score < 60 THEN Abs(spam_score - 50) ELSE 0)
    IN  IF toxicity_score >= th.toxicity_high
          THEN <<"toxic", toxicity_score>>
        ELSE IF spam_score >= th.spam_high
          THEN <<"spam", spam_score>>
        ELSE IF toxicity_score >= th.toxicity_medium
          THEN <<"needs_review", Max(toxicity_score, 60)>>
        ELSE IF spam_score >= 50
          THEN <<"needs_review", Max(spam_score, 60)>>
        ELSE IF sentiment_result.label = "negative" /\ sentiment_result.score >= 75
          THEN <<"needs_review", confidence>>
        ELSE IF confidence < th.confidence_low
          THEN <<"needs_review", confidence>>
        ELSE <<"acceptable", confidence>>

\* sentiment_result is a parameter of the source function too.
determine_classification(th, toxicity_score, spam_score, sentiment_result) ==
    LET confidence ==
            One - Max(IF toxicity_score < 60 THEN Abs(toxicity_score - 50) ELSE 0,
                      IF spam_score < 60 THEN Abs(spam_score - 50) ELSE 0)
    IN  IF toxicity_score >= th.toxicity_high
          THEN <<"toxic", toxicity_score>>
        ELSE IF spam_score >= th.spam_high
          THEN <<"spam", spam_score>>
        ELSE IF toxicity_score >= th.toxicity_medium
          THEN <<"needs_review", Max(toxicity_score, 60)>>
        ELSE IF spam_score >= 50
          THEN <<"needs_review", Max(spam_score, 60)>>
        ELSE IF confidence < th.confidence_low
          THEN <<"needs_review", confidence>>
        ELSE <<"acceptable", confidence>>

\* Labels the two transformer pipelines can return, and str.lower() on them.
ModelLabels == {"toxic", "NEGATIVE", "POSITIVE"}
Lower(label) ==
    CASE label = "NEGATIVE" -> "negative"
      [] label = "POSITIVE" -> "positive"
      [] OTHER -> label

\* _detect_toxicity: fails = the model call raises, which the function absorbs.
detect_toxicity(c, fails) ==
    IF fails THEN [label |-> "unknown", score |-> 0]
    ELSE LET score == IF Lower(c.model_label) \in {"toxic", "negative"}
                        THEN c.model_score
                        ELSE One - c.model_score
         IN  [label |-> c.model_label, score |-> Min(Max(score, 0), One)]

\* _detect_spam without the final min(score, 1.0).
detect_spam_unclamped(c) ==
    LET pattern == IF c.pattern_matches > 0
                     THEN Min(c.pattern_matches * 15, 50) ELSE 0
        caps    == IF c.length > 10 /\ 2 * c.upper > c.length THEN 20 ELSE 0
        punct   == IF c.punct_count > 5 THEN 15 ELSE 0
        repeat  == IF c.words > 3 /\ 10 * c.distinct < 3 * c.words
                     THEN 20 ELSE 0
    IN  pattern + caps + punct + repeat

\* _detect_spam counting five punctuation marks as excessive already.
detect_spam_ge(c) ==
    LET pattern == IF c.pattern_matches > 0
                     THEN Min(c.pattern_matches * 15, 50) ELSE 0
        caps    == IF c.length > 10 /\ 2 * c.upper > c.length THEN 20 ELSE 0
        punct   == IF c.punct_count >= 5 THEN 15 ELSE 0
        repeat  == IF c.words > 3 /\ 10 * c.distinct < 3 * c.words
                     THEN 20 ELSE 0
    IN  Min(pattern + caps + punct + repeat, One)

\* _detect_spam, over the measurements it takes of the text.
detect_spam(c) ==
    LET pattern == IF c.pattern_matches > 0
                     THEN Min(c.pattern_matches * 15, 50) ELSE 0
        caps    == IF c.length > 10 /\ 2 * c.upper > c.length THEN 20 ELSE 0
        punct   == IF c.punct_count > 5 THEN 15 ELSE 0
        repeat  == IF c.words > 3 /\ 10 * c.distinct < 3 * c.words
                     THEN 20 ELSE 0
    IN  Min(pattern + caps + punct + repeat, One)

\* _analyze_sentiment: fails = the model call raises, which the function absorbs.
analyze_sentiment(c, fails) ==
    IF fails THEN [label |-> "neutral", score |-> 50]
    ELSE [label |-> Lower(c.sentiment_label), score |-> c.sentiment_score]

\* Where a classification can fail: in the toxicity model, in the sentiment
\* model, or elsewhere inside the outer try of _classify_sync.
FailureModes == {"none", "toxicity", "sentiment", "engine"}

\* Step 4 of _classify_sync and the result it builds from the three scores.
classification_record(th, toxicity_score, spam_score, sentiment_result) ==
    LET v == determine_classification(th, toxicity_score, spam_score,
                                      sentiment_result)
    IN  [classification |-> v[1], confidence |-> v[2],
         toxicity_score |-> toxicity_score, spam_score |-> spam_score,
         sentiment |-> sentiment_result.label,
         sentiment_score |-> sentiment_result.score,
         \* self.thresholds.get(f'{classification}_high', 0.5)
         threshold |-> IF v[1] = "spam" THEN th.spam_high ELSE 50]

\* _classify_sync
classify_sync(th, c, fault) ==
    IF fault = "engine"
      THEN [classification |-> "needs_review", confidence |-> 0,
            toxicity_score |-> 0, spam_score |-> 0,
            sentiment |-> "neutral", sentiment_score |-> 50, threshold |-> 0]
    ELSE classification_record(th,
                               detect_toxicity(c, fault = "toxicity").score,
                               detect_spam(c),
                               analyze_sentiment(c, fault = "sentiment"))

\* ------------------------------------------------------ submissions -----
\* The texts submitted, each with what the models and the spam heuristics
\* measure on it.
\* One spam pattern, scored by the fallback sentiment model: acceptable.
Winner ==
    [text |-> "You are a winner, truly", model_label |-> "POSITIVE", model_score |-> 70,
     pattern_matches |-> 1, length |-> 23, upper |-> 1, punct_count |-> 0,
     words |-> 5, distinct |-> 5,
     sentiment_label |-> "POSITIVE", sentiment_score |-> 90]
\* Toxic and spammy at once.
Hate ==
    [text |-> "I HATE YOU!!! CLICK HERE!!! BUY NOW, ACT NOW, FREE MONEY",
     model_label |-> "toxic", model_score |-> 85,
     pattern_matches |-> 4, length |-> 56, upper |-> 40, punct_count |-> 6,
     words |-> 11, distinct |-> 9,
     sentiment_label |-> "NEGATIVE", sentiment_score |-> 98]
\* Spammy only.
BuyNow ==
    [text |-> "CLICK HERE!!! BUY NOW!!! LIMITED TIME, FREE MONEY",
     model_label |-> "toxic", model_score |-> 20,
     pattern_matches |-> 4, length |-> 49, upper |-> 35, punct_count |-> 6,
     words |-> 8, distinct |-> 8,
     sentiment_label |-> "POSITIVE", sentiment_score |-> 70]
\* Mildly toxic.
Dim ==
    [text |-> "you people are rather dim", model_label |-> "NEGATIVE", model_score |-> 65,
     pattern_matches |-> 0, length |-> 25, upper |-> 0, punct_count |-> 0,
     words |-> 5, distinct |-> 5,
     sentiment_label |-> "NEGATIVE", sentiment_score |-> 80]

Contents == {Winner, Hate, BuyNow, Dim}

\* The validated submissions that arrive.
Submissions ==
    {[content |-> Winner, author_id |-> "u1"],
     [content |-> Hate,   author_id |-> "u1"],
     [content |-> Hate,   author_id |-> "u2"],
     [content |-> BuyNow, author_id |-> "u1"],
     [content |-> Dim,    author_id |-> "u2"]}

NoContent ==
    [text |-> "", model_label |-> "toxic", model_score |-> 0,
     pattern_matches |-> 0, length |-> 0, upper |-> 0, punct_count |-> 0,
     words |-> 0, distinct |-> 0,
     sentiment_label |-> "POSITIVE", sentiment_score |-> 0]
NoSubmission == [content |-> NoContent, author_id |-> ""]
NoClassification ==
    [classification |-> "none", confidence |-> 0, toxicity_score |-> 0,
     spam_score |-> 0, sentiment |-> "none", sentiment_score |-> 0,
     threshold |-> 0]
NoAction == [action |-> "none", notification_sent |-> FALSE]
NoResponse ==
    [status |-> 0, content_id |-> 0, classification |-> "none",
     confidence |-> 0, toxicity_score |-> 0, spam_score |-> 0,
     sentiment |-> "none", action_taken |-> "none", threshold_used |-> 0,
     notification_sent |-> FALSE]

\* ----------------------------------------------------- storage calls ----
\* calculate_priority with toxicity >= 0.7 for priority 5.
calculate_priority_ge(classification) ==
    LET toxicity   == classification.toxicity_score
        confidence == classification.confidence
    IN  IF toxicity >= 70 \/ confidence < 60 THEN 5
        ELSE IF toxicity > 50 \/ confidence < 70 THEN 4
        ELSE IF toxicity > 30 THEN 3
        ELSE 2

\* calculate_priority asking for both conditions of a level.
calculate_priority_and(classification) ==
    LET toxicity   == classification.toxicity_score
        confidence == classification.confidence
    IN  IF toxicity > 70 /\ confidence < 60 THEN 5
        ELSE IF toxicity > 50 /\ confidence < 70 THEN 4
        ELSE IF toxicity > 30 THEN 3
        ELSE 2

\* calculate_priority
calculate_priority(classification) ==
    LET toxicity   == classification.toxicity_score
        confidence == classification.confidence
    IN  IF toxicity > 70 \/ confidence < 60 THEN 5
        ELSE IF toxicity > 50 \/ confidence < 70 THEN 4
        ELSE IF toxicity > 30 THEN 3
        ELSE 2

\* add_to_moderation_queue with the priority scale upside down.
QueueRow_inverted(content_id, sub, classification) ==
    [content_id |-> content_id, author_id |-> sub.author_id,
     content_text |-> sub.content.text, reason |-> "needs_human_review",
     priority |-> 6 - calculate_priority(classification), status |-> "pending"]

\* add_to_moderation_queue: the row it inserts.
QueueRow(content_id, sub, classification) ==
    [content_id |-> content_id, author_id |-> sub.author_id,
     content_text |-> sub.content.text, reason |-> "needs_human_review",
     priority |-> calculate_priority(classification), status |-> "pending"]

\* notify_user: one more row for (author_id, reason).
Notified(tbl, author_id, reason) ==
    [tbl EXCEPT ![<<author_id, reason>>] = @ + 1]

\* increment_violation_counter whose conflict branch writes 1 again.
Incremented_reset(tbl, author_id, violation_type) ==
    LET key == <<author_id, violation_type>>
    IN  [k \in DOMAIN tbl \cup {key} |-> IF k = key THEN 1 ELSE tbl[k]]

\* increment_violation_counter whose conflict branch does nothing.
Incremented_insert_only(tbl, author_id, violation_type) ==
    LET key == <<author_id, violation_type>>
    IN  [k \in DOMAIN tbl \cup {key} |-> IF k \in DOMAIN tbl THEN tbl[k] ELSE 1]

\* increment_violation_counter: INSERT ... ON CONFLICT DO UPDATE count + 1.
Incremented(tbl, author_id, violation_type) ==
    LET key == <<author_id, violation_type>>
    IN  IF key \in DOMAIN tbl
          THEN [tbl EXCEPT ![key] = @ + 1]
          ELSE [k \in DOMAIN tbl \cup {key} |-> IF k = key THEN 1 ELSE tbl[k]]

\* apply_business_logic whose spam branch was pasted from the toxic one
\* without the action being renamed.
ActionFor_pasted(category) ==
    CASE category = "acceptable" ->
            [action |-> "approved_and_stored", notification_sent |-> FALSE]
      [] category = "needs_review" ->
            [action |-> "queued_for_review", notification_sent |-> FALSE]
      [] category = "toxic" ->
            [action |-> "rejected_toxic", notification_sent |-> TRUE]
      [] category = "spam" ->
            [action |-> "rejected_toxic", notification_sent |-> TRUE]
      [] OTHER -> [action |-> category, notification_sent |-> FALSE]

\* The action and notification flag apply_business_logic sets for a category.
ActionFor(category) ==
    CASE category = "acceptable" ->
            [action |-> "approved_and_stored", notification_sent |-> FALSE]
      [] category = "needs_review" ->
            [action |-> "queued_for_review", notification_sent |-> FALSE]
      [] category = "toxic" ->
            [action |-> "rejected_toxic", notification_sent |-> TRUE]
      [] category = "spam" ->
            [action |-> "rejected_spam", notification_sent |-> TRUE]
      [] OTHER -> [action |-> category, notification_sent |-> FALSE]

\* content_id = str(uuid.uuid4()), taken once for all requests.
ContentId_shared(i) == 1

\* content_id = str(uuid.uuid4()) of request i: a fresh id per request.
ContentId(i) == i

\* store_content writing the category where the action belongs.
ContentRow_category(content_id, sub, classification, action) ==
    [content_id |-> content_id,
     author_id |-> sub.author_id,
     content_text |-> sub.content.text,
     classification |-> classification.classification,
     confidence |-> classification.confidence,
     toxicity_score |-> classification.toxicity_score,
     spam_score |-> classification.spam_score,
     sentiment |-> classification.sentiment,
     action_taken |-> classification.classification]

\* store_content: the row inserted into content.
ContentRow(content_id, sub, classification, action) ==
    [content_id |-> content_id,
     author_id |-> sub.author_id,
     content_text |-> sub.content.text,
     classification |-> classification.classification,
     confidence |-> classification.confidence,
     toxicity_score |-> classification.toxicity_score,
     spam_score |-> classification.spam_score,
     sentiment |-> classification.sentiment,
     action_taken |-> action.action]

\* store_content: the row inserted into audit_log.
AuditRow(content_id, classification, action) ==
    [content_id |-> content_id, event_type |-> "content_classified",
     classification |-> classification.classification,
     action |-> action.action]

\* log_classification_metrics: the row inserted into model_metrics.
MetricRow(content_id, confidence, classification) ==
    [content_id |-> content_id, confidence_score |-> confidence,
     classification |-> classification]

\* ------------------------------------------------------- publisher ------
Platforms == {"facebook", "twitter"}

\* What a platform coroutine of post_content comes to: a result with
\* success, a result without, or an exception out of the coroutine.
PlatformOutcomes == {"posted", "failed", "raised"}

NotConfigured == [success |-> FALSE, message |-> "not configured"]
NoPlatformResult == [success |-> FALSE, message |-> "no result"]

\* The entry post_content records for one gathered result.
GatheredResult(outcome) ==
    CASE outcome = "posted" -> [success |-> TRUE, message |-> "Posted successfully"]
      [] outcome = "failed" -> [success |-> FALSE, message |-> "API error"]
      [] OTHER              -> [success |-> FALSE, message |-> "exception"]

\* post_content with platform_names not rebuilt from the enabled flags.
post_content_fixed_names(poster, fb, tw) ==
    LET tasks == (IF poster.facebook_enabled THEN <<fb>> ELSE <<>>)
                   \o (IF poster.twitter_enabled THEN <<tw>> ELSE <<>>)
        platform_names == <<"facebook", "twitter">>
        enabled == [facebook |-> poster.facebook_enabled,
                    twitter |-> poster.twitter_enabled]
        zipped(name) ==
            {k \in 1..Min(Len(platform_names), Len(tasks)) :
                 platform_names[k] = name}
    IN  [name \in Platforms |->
            IF zipped(name) # {}
              THEN GatheredResult(tasks[CHOOSE k \in zipped(name) : TRUE])
            ELSE IF enabled[name] THEN NoPlatformResult
            ELSE NotConfigured]

\* post_content: the results dictionary, one entry per platform.  fb and tw
\* are what the two platform coroutines come to when they are run.
post_content(poster, fb, tw) ==
    LET tasks == (IF poster.facebook_enabled THEN <<fb>> ELSE <<>>)
                   \o (IF poster.twitter_enabled THEN <<tw>> ELSE <<>>)
        platform_names ==
                 (IF poster.facebook_enabled THEN <<"facebook">> ELSE <<>>)
                   \o (IF poster.twitter_enabled THEN <<"twitter">> ELSE <<>>)
        enabled == [facebook |-> poster.facebook_enabled,
                    twitter |-> poster.twitter_enabled]
        zipped(name) ==
            {k \in 1..Min(Len(platform_names), Len(tasks)) :
                 platform_names[k] = name}
    IN  [name \in Platforms |->
            IF zipped(name) # {}
              THEN GatheredResult(tasks[CHOOSE k \in zipped(name) : TRUE])
            ELSE IF enabled[name] THEN NoPlatformResult
            ELSE NotConfigured]

\* post_to_social_media: post_content, then the insert of the results; an
\* exception of the insert (write_ok false) is caught and logged.
post_to_social_media(poster, fb, tw, write_ok) ==
    LET body_raises == ~write_ok
        caught      == body_raises          \* except Exception as e
    IN  [done |-> TRUE,
         raised |-> body_raises /\ ~caught,
         recorded |-> ~body_raises,
         results |-> post_content(poster, fb, tw)]

NoPublish ==
    [done |-> FALSE, raised |-> FALSE, recorded |-> FALSE,
     results |-> [name \in Platforms |-> NoPlatformResult]]
NoPublishCall == [facebook |-> "posted", twitter |-> "posted", write_ok |-> TRUE]

\* Both platforms have their tokens in the environment.
ConfiguredPoster == [facebook_enabled |-> TRUE, twitter_enabled |-> TRUE]

\* Step 4 of submit_content with the test on the classification negated
\* for the review case.
ShouldPublish_review_too(classification) ==
    classification.classification \in {"acceptable", "needs_review"}

\* Step 4 of submit_content: whether the publish is added as background task.
ShouldPublish(classification) ==
    classification.classification = "acceptable"

\* ---------------------------------------------------------- pipeline ----
\* A collaborator (model, database) may fail at any call; the number of
\* failures in one run is capped at MaxFaults.
Inject(failed) ==
    /\ failed => faults < MaxFaults
    /\ faults' = IF failed THEN faults + 1 ELSE faults

\* A request reaches submit_content with a validated submission.
Submit(i) ==
    /\ pc[i] = "idle"
    /\ \A j \in Ids : j < i => pc[j] # "idle"
    /\ \E s \in Submissions : submission' = [submission EXCEPT ![i] = s]
    /\ pc' = [pc EXCEPT ![i] = "classify"]
    /\ UNCHANGED <<thresholds, classification_result, action_result, response,
                   background_tasks, dbvars, faults, sv, verdict, social_poster, unitvars>>

\* Step 1 of submit_content: await classifier.classify(submission.content).
Classify(i) ==
    /\ pc[i] = "classify"
    /\ \E fault \in FailureModes :
          /\ Inject(fault # "none")
          /\ classification_result' =
              [classification_result EXCEPT
                 ![i] = classify_sync(thresholds, submission[i].content, fault)]
    /\ pc' = [pc EXCEPT ![i] = "dispatch"]
    /\ UNCHANGED <<thresholds, submission, action_result, response,
                   background_tasks, dbvars, sv, verdict, social_poster, unitvars>>

\* The call the executor runs for classify never returns: the await of
\* run_in_executor has no timeout, so the coroutine stays suspended.
ScorerHangs(i) ==
    /\ pc[i] = "classify"
    /\ Inject(TRUE)
    /\ pc' = [pc EXCEPT ![i] = "hung"]
    /\ UNCHANGED <<thresholds, submission, classification_result,
                   action_result, response, background_tasks, dbvars,
                   sv, verdict, social_poster, unitvars>>

\* Which storage call of apply_business_logic raises, if any.
DispatchFaults == {"none", "enqueue", "notify", "increment"}

\* Step 2 of submit_content: apply_business_logic.  A storage call that
\* raises ends the function there and lands in submit_content's except.
ApplyBusinessLogic(i) ==
    /\ pc[i] = "dispatch"
    /\ LET category == classification_result[i].classification
           author   == submission[i].author_id
       IN \E fault \in DispatchFaults :
            /\ Inject(fault # "none")
            /\ fault = "enqueue" => category = "needs_review"
            /\ fault \in {"notify", "increment"} => category \in {"toxic", "spam"}
            /\ moderation_queue' =
                 IF category = "needs_review" /\ fault = "none"
                   THEN moderation_queue \cup
                          {QueueRow(ContentId(i), submission[i],
                                    classification_result[i])}
                   ELSE moderation_queue
            /\ user_notifications' =
                 IF category \in {"toxic", "spam"} /\ fault # "notify"
                   THEN Notified(user_notifications, author, category)
                   ELSE user_notifications
            /\ user_violations' =
                 IF category \in {"toxic", "spam"} /\ fault = "none"
                   THEN Incremented(user_violations, author, category)
                   ELSE user_violations
            /\ IF fault = "none"
                 THEN /\ action_result' =
                           [action_result EXCEPT ![i] = ActionFor(category)]
                      /\ pc' = [pc EXCEPT ![i] = "store"]
                 ELSE /\ action_result' = action_result
                      /\ pc' = [pc EXCEPT ![i] = "log_error"]
    /\ UNCHANGED <<thresholds, submission, classification_result, response,
                   background_tasks, content, audit_log, model_metrics,
                   social_media_posts, sv, verdict, social_poster, unitvars>>

\* store_content without its transaction: the content row stays when the
\* insert of the audit row fails.
StoreContent_no_transaction(i) ==
    /\ pc[i] = "store"
    /\ \E ok \in BOOLEAN :
         /\ Inject(~ok)
         /\ content' = content \cup
               {ContentRow(ContentId(i), submission[i],
                           classification_result[i], action_result[i])}
         /\ IF ok
           THEN /\ audit_log' = audit_log \cup
                     {AuditRow(ContentId(i), classification_result[i],
                               action_result[i])}
                /\ background_tasks' =
                     IF ShouldPublish(classification_result[i])
                       THEN [background_tasks EXCEPT ![i] = "scheduled"]
                       ELSE background_tasks
                /\ pc' = [pc EXCEPT ![i] = "metrics"]
           ELSE /\ pc' = [pc EXCEPT ![i] = "log_error"]
                /\ UNCHANGED <<audit_log, background_tasks>>
    /\ UNCHANGED <<thresholds, submission, classification_result, action_result,
                   response, moderation_queue, user_notifications,
                   user_violations, model_metrics, social_media_posts,
                   sv, verdict, social_poster, unitvars>>

\* submit_content adding the publish to the background tasks before it
\* awaits store_content.
StoreContent_schedule_first(i) ==
    /\ pc[i] = "store"
    /\ background_tasks' =
         IF ShouldPublish(classification_result[i])
           THEN [background_tasks EXCEPT ![i] = "scheduled"]
           ELSE background_tasks
    /\ \E ok \in BOOLEAN :
         /\ Inject(~ok)
         /\ IF ok
           THEN /\ content' = content \cup
                     {ContentRow(ContentId(i), submission[i],
                                 classification_result[i], action_result[i])}
                /\ audit_log' = audit_log \cup
                     {AuditRow(ContentId(i), classification_result[i],
                               action_result[i])}
                /\ pc' = [pc EXCEPT ![i] = "metrics"]
           ELSE /\ pc' = [pc EXCEPT ![i] = "log_error"]
                /\ UNCHANGED <<content, audit_log>>
    /\ UNCHANGED <<thresholds, submission, classification_result, action_result,
                   response, moderation_queue, user_notifications,
                   user_violations, model_metrics, social_media_posts,
                   sv, verdict, social_poster, unitvars>>

\* Step 3 and step 4 of submit_content: store_content inserts the content row
\* and the audit row in one transaction; then the publish is added to the
\* request's background tasks when the classification is acceptable.
StoreContent(i) ==
    /\ pc[i] = "store"
    /\ \E ok \in BOOLEAN :
         /\ Inject(~ok)
         /\ IF ok
           THEN /\ content' = content \cup
                     {ContentRow(ContentId(i), submission[i],
                                 classification_result[i], action_result[i])}
                /\ audit_log' = audit_log \cup
                     {AuditRow(ContentId(i), classification_result[i],
                               action_result[i])}
                /\ background_tasks' =
                     IF ShouldPublish(classification_result[i])
                       THEN [background_tasks EXCEPT ![i] = "scheduled"]
                       ELSE background_tasks
                /\ pc' = [pc EXCEPT ![i] = "metrics"]
           ELSE /\ pc' = [pc EXCEPT ![i] = "log_error"]
                /\ UNCHANGED <<content, audit_log, background_tasks>>
    /\ UNCHANGED <<thresholds, submission, classification_result, action_result,
                   response, moderation_queue, user_notifications,
                   user_violations, model_metrics, social_media_posts,
                   sv, verdict, social_poster, unitvars>>

\* Step 5 of submit_content and the response: log_classification_metrics,
\* then the ClassificationResult is returned.
LogClassificationMetrics(i) ==
    /\ pc[i] = "metrics"
    /\ \E ok \in BOOLEAN :
         /\ Inject(~ok)
         /\ IF ok
           THEN /\ model_metrics' = model_metrics \cup
                     {MetricRow(ContentId(i),
                                classification_result[i].confidence,
                                classification_result[i].classification)}
                /\ response' = [response EXCEPT ![i] =
                     [status |-> 200, content_id |-> ContentId(i),
                      classification |-> classification_result[i].classification,
                      confidence |-> classification_result[i].confidence,
                      toxicity_score |-> classification_result[i].toxicity_score,
                      spam_score |-> classification_result[i].spam_score,
                      sentiment |-> classification_result[i].sentiment,
                      action_taken |-> action_result[i].action,
                      threshold_used |-> classification_result[i].threshold,
                      notification_sent |-> action_result[i].notification_sent]]
                /\ pc' = [pc EXCEPT ![i] = "done"]
           ELSE /\ pc' = [pc EXCEPT ![i] = "log_error"]
                /\ UNCHANGED <<model_metrics, response>>
    /\ UNCHANGED <<thresholds, submission, classification_result, action_result,
                   background_tasks, content, audit_log, moderation_queue,
                   user_notifications, user_violations, social_media_posts,
                   sv, verdict, social_poster, unitvars>>

\* The except branch of submit_content: log_error (which absorbs its own
\* failure), then HTTPException 500.  The background tasks of a request that
\* ends in an exception are not run.
LogError(i) ==
    /\ pc[i] = "log_error"
    /\ \E ok \in BOOLEAN :
         /\ Inject(~ok)
         /\ audit_log' = IF ok
                        THEN audit_log \cup
                               {[content_id |-> ContentId(i),
                                 event_type |-> "processing_error",
                                 classification |-> "none", action |-> "none"]}
                        ELSE audit_log
    /\ response' = [response EXCEPT ![i] = [NoResponse EXCEPT !.status = 500]]
    /\ background_tasks' =
         [background_tasks EXCEPT ![i] = IF @ = "scheduled" THEN "dropped" ELSE @]
    /\ pc' = [pc EXCEPT ![i] = "failed"]
    /\ UNCHANGED <<thresholds, submission, classification_result, action_result,
                   content, moderation_queue, user_notifications,
                   user_violations, model_metrics, social_media_posts,
                   sv, verdict, social_poster, unitvars>>

\* post_to_social_media, run as a background task after the response was
\* sent: post_content, then the insert into social_media_posts; an exception
\* of either is logged and absorbed.
PostToSocialMedia(i) ==
    /\ pc[i] = "done"
    /\ background_tasks[i] = "scheduled"
    /\ \E fb \in PlatformOutcomes, tw \in PlatformOutcomes, ok \in BOOLEAN :
         LET r == post_to_social_media(social_poster, fb, tw, ok)
         IN  /\ Inject(~ok)
             /\ social_media_posts' =
                   IF r.recorded
                     THEN social_media_posts \cup
                            {[content_id |-> ContentId(i), results |-> r.results]}
                     ELSE social_media_posts
    /\ background_tasks' = [background_tasks EXCEPT ![i] = "ran"]
    /\ UNCHANGED <<thresholds, pc, submission, classification_result,
                   action_result, response, content, audit_log,
                   moderation_queue, user_notifications, user_violations,
                   model_metrics, sv, verdict, social_poster, unitvars>>

ViolationTypes == {"toxic", "spam"}

\* Idle values of the parts that are exercised on their own.
\* A string is taken by its lengths: body characters from the first to the
\* last one that is not white space, and pad white-space characters around.
NoString == [pad |-> 0, body |-> 0]
NoRawSubmission ==
    [content |-> NoString, author_id |-> NoString, platform |-> NoString]
NoValidation ==
    [status |-> "pending", content |-> NoString, author_id |-> NoString]
NoJob == [pc |-> "idle", seen |-> {}]
NoMeasure ==
    [pattern_matches |-> 0, length |-> 0, upper |-> 0, punct_count |-> 0,
     words |-> 0, distinct |-> 0]
NoScore == -1
NoPriorityInput == [toxicity_score |-> 0, confidence |-> 0]
NoPriority == 0
IdleScorers ==
    /\ spam_input = NoMeasure
    /\ spam_result = NoScore
    /\ priority_input = NoPriorityInput
    /\ priority_result = NoPriority

Init ==
    /\ thresholds = DefaultThresholds
    /\ pc = [i \in Ids |-> "idle"]
    /\ submission = [i \in Ids |-> NoSubmission]
    /\ classification_result = [i \in Ids |-> NoClassification]
    /\ action_result = [i \in Ids |-> NoAction]
    /\ response = [i \in Ids |-> NoResponse]
    /\ background_tasks = [i \in Ids |-> "none"]
    /\ content = {}
    /\ audit_log = {}
    /\ moderation_queue = {}
    /\ user_notifications = [k \in Authors \X ViolationTypes |-> 0]
    /\ user_violations = [k \in {} |-> 0]
    /\ model_metrics = {}
    /\ social_media_posts = {}
    /\ faults = 0
    /\ sv = [toxicity_score |-> 0, spam_score |-> 0, sentiment |-> "neutral"]
    /\ verdict = <<"none", 0>>
    /\ social_poster = ConfiguredPoster
    /\ publish_call = NoPublishCall
    /\ publish_result = NoPublish
    /\ raw_submission = NoRawSubmission
    /\ validation = NoValidation
    /\ job = NoJob
    /\ IdleScorers

Next ==
    \E i \in Ids :
        \/ Submit(i)
        \/ Classify(i)
        \/ ScorerHangs(i)
        \/ ApplyBusinessLogic(i)
        \/ StoreContent(i)
        \/ LogClassificationMetrics(i)
        \/ LogError(i)
        \/ PostToSocialMedia(i)

Spec == Init /\ [][Next]_vars

\* The event loop resumes every coroutine whose awaited call has returned.
Resumes(i) ==
    \/ Classify(i)
    \/ ApplyBusinessLogic(i)
    \/ StoreContent(i)
    \/ LogClassificationMetrics(i)
    \/ LogError(i)

SpecFair == Init /\ [][Next]_vars /\ \A i \in Ids : WF_vars(Resumes(i))

\* ------------------------------------------- pipeline, scorers stubbed --
\* What the stubbed toxicity and spam scorers return.
MockScores == [toxicity_score |-> 5, spam_score |-> 2]

\* Step 1 of submit_content for a request whose scorers are stubbed: the
\* rest of _classify_sync runs on the stubbed scores.
ClassifyMocked(i) ==
    /\ pc[i] = "classify"
    /\ classification_result' =
          [classification_result EXCEPT
             ![i] = classification_record(
                        thresholds, MockScores.toxicity_score,
                        MockScores.spam_score,
                        analyze_sentiment(submission[i].content, FALSE))]
    /\ pc' = [pc EXCEPT ![i] = "dispatch"]
    /\ UNCHANGED <<thresholds, submission, action_result, response,
                   background_tasks, dbvars, faults, sv, verdict,
                   social_poster, unitvars>>

NextMock ==
    \/ Next
    \/ \E i \in Ids : ClassifyMocked(i)

SpecMock == Init /\ [][NextMock]_vars

\* The pipeline at rest, for the parts that are exercised on their own.
IdlePipeline ==
    /\ pc = [i \in Ids |-> "idle"]
    /\ submission = [i \in Ids |-> NoSubmission]
    /\ classification_result = [i \in Ids |-> NoClassification]
    /\ action_result = [i \in Ids |-> NoAction]
    /\ response = [i \in Ids |-> NoResponse]
    /\ background_tasks = [i \in Ids |-> "none"]
    /\ content = {}
    /\ audit_log = {}
    /\ moderation_queue = {}
    /\ user_notifications = [k \in Authors \X ViolationTypes |-> 0]
    /\ user_violations = [k \in {} |-> 0]
    /\ model_metrics = {}
    /\ social_media_posts = {}
    /\ faults = 0

\* ---------------------------------------------- spam scorer on its own --
\* len(self.spam_patterns)
NumPatterns == 9

\* Measurements of a text around the limits _detect_spam tests: patterns
\* matched, characters, uppercase characters, '!', '?' and '.' characters,
\* words and distinct words.  A pattern needs five characters at least.
Measures ==
    {m \in [pattern_matches : 0..NumPatterns,
            length : {5, 10, 11, 40, 200},
            upper : {0, 5, 6, 20, 21},
            punct_count : {0, 5, 6},
            words : {1, 3, 4, 10},
            distinct : {1, 2, 3, 4}] :
        /\ 5 * m.pattern_matches <= m.length
        /\ m.upper + m.punct_count <= m.length
        /\ m.distinct <= m.words
        /\ m.words <= m.length}

\* Step 2 of _classify_sync: spam_score = self._detect_spam(content).
DetectSpam ==
    /\ spam_result = NoScore
    /\ spam_result' = detect_spam(spam_input)
    /\ UNCHANGED <<thresholds, reqvars, dbvars, faults, sv, verdict,
                   social_poster, publish_call, publish_result,
                   raw_submission, validation, job, spam_input,
                   priority_input, priority_result>>

InitSpam ==
    /\ thresholds = DefaultThresholds
    /\ IdlePipeline
    /\ sv = [toxicity_score |-> 0, spam_score |-> 0, sentiment |-> "neutral"]
    /\ verdict = <<"none", 0>>
    /\ social_poster = ConfiguredPoster
    /\ publish_call = NoPublishCall
    /\ publish_result = NoPublish
    /\ raw_submission = NoRawSubmission
    /\ validation = NoValidation
    /\ job = NoJob
    /\ spam_input \in Measures
    /\ spam_result = NoScore
    /\ priority_input = NoPriorityInput
    /\ priority_result = NoPriority

NextSpam == DetectSpam

SpecSpam == InitSpam /\ [][NextSpam]_vars

\* ------------------------------------------ priority calculator alone --
PriorityInputs == [toxicity_score : 0..One, confidence : 0..One]

\* add_to_moderation_queue: priority = calculate_priority(classification).
CalculatePriority ==
    /\ priority_result = NoPriority
    /\ priority_result' = calculate_priority(priority_input)
    /\ UNCHANGED <<thresholds, reqvars, dbvars, faults, sv, verdict,
                   social_poster, publish_call, publish_result,
                   raw_submission, validation, job, spam_input, spam_result,
                   priority_input>>

InitPriority ==
    /\ thresholds = DefaultThresholds
    /\ IdlePipeline
    /\ sv = [toxicity_score |-> 0, spam_score |-> 0, sentiment |-> "neutral"]
    /\ verdict = <<"none", 0>>
    /\ social_poster = ConfiguredPoster
    /\ publish_call = NoPublishCall
    /\ publish_result = NoPublish
    /\ raw_submission = NoRawSubmission
    /\ validation = NoValidation
    /\ job = NoJob
    /\ spam_input = NoMeasure
    /\ spam_result = NoScore
    /\ priority_input \in PriorityInputs
    /\ priority_result = NoPriority

NextPriority == CalculatePriority

SpecPriority == InitPriority /\ [][NextPriority]_vars

\* ----------------------------------------------- validation on its own --
len(s) == s.pad + s.body
strip(s) == [pad |-> 0, body |-> s.body]
isspace(s) == s.body = 0 /\ s.pad > 0

\* Strings around the limits of a field, with up to MaxPad white space.
RawStrings(limit) ==
    [pad : 0..MaxPad, body : {0, 1, limit - 1, limit, limit + 1}]

RawSubmissions ==
    [content : RawStrings(MaxContentLength),
     author_id : RawStrings(MaxAuthorLength),
     platform : RawStrings(MaxPlatformLength)]

\* ContentSubmission: the length constraints of the fields are checked on
\* the value received, then the validators of content and author_id run.
ContentSubmission(raw) ==
    LET content_ok  == /\ len(raw.content) >= 1
                       /\ len(raw.content) <= MaxContentLength
        author_ok   == /\ len(raw.author_id) >= 1
                       /\ len(raw.author_id) <= MaxAuthorLength
                       /\ ~(len(raw.author_id) = 0 \/ isspace(raw.author_id))
        platform_ok == len(raw.platform) <= MaxPlatformLength
    IN  IF content_ok /\ author_ok /\ platform_ok
          THEN [status |-> "valid",
                content |-> strip(raw.content),
                author_id |-> strip(raw.author_id)]
          ELSE [status |-> "422", content |-> NoString, author_id |-> NoString]

\* FastAPI builds the ContentSubmission of a request before submit_content.
Validate ==
    /\ validation.status = "pending"
    /\ validation' = ContentSubmission(raw_submission)
    /\ UNCHANGED <<thresholds, reqvars, dbvars, faults, sv, verdict,
                   social_poster, publish_call, publish_result,
                   raw_submission, job, scorervars>>

InitValidate ==
    /\ thresholds = DefaultThresholds
    /\ IdlePipeline
    /\ sv = [toxicity_score |-> 0, spam_score |-> 0, sentiment |-> "neutral"]
    /\ verdict = <<"none", 0>>
    /\ social_poster = ConfiguredPoster
    /\ publish_call = NoPublishCall
    /\ publish_result = NoPublish
    /\ raw_submission \in RawSubmissions
    /\ validation = NoValidation
    /\ job = NoJob
    /\ IdleScorers

NextValidate == Validate

SpecValidate == InitValidate /\ [][NextValidate]_vars

\* ------------------------------------------------ publisher on its own --
\* SocialMediaPoster.__init__: a platform is enabled when its tokens are set.
PosterConfigs == [facebook_enabled : BOOLEAN, twitter_enabled : BOOLEAN]

PublishCalls ==
    [facebook : PlatformOutcomes, twitter : PlatformOutcomes,
     write_ok : BOOLEAN]

\* One call of post_to_social_media.
Publish ==
    /\ ~publish_result.done
    /\ publish_result' =
          post_to_social_media(social_poster, publish_call.facebook,
                               publish_call.twitter, publish_call.write_ok)
    /\ UNCHANGED <<thresholds, reqvars, dbvars, faults, sv, verdict,
                   social_poster, publish_call, raw_submission, validation,
                   job, scorervars>>

InitPublish ==
    /\ thresholds = DefaultThresholds
    /\ IdlePipeline
    /\ sv = [toxicity_score |-> 0, spam_score |-> 0, sentiment |-> "neutral"]
    /\ verdict = <<"none", 0>>
    /\ social_poster \in PosterConfigs
    /\ publish_call \in PublishCalls
    /\ publish_result = NoPublish
    /\ raw_submission = NoRawSubmission
    /\ validation = NoValidation
    /\ job = NoJob
    /\ IdleScorers

NextPublish == Publish

SpecPublish == InitPublish /\ [][NextPublish]_vars

\* ------------------------------------------- verdict engine on its own --
Sentiments == {"positive", "negative", "neutral"}
NoVerdict == <<"none", 0>>

SentimentScores == {50, 75, One}

ScoreVectors ==
    [toxicity_score : 0..One, spam_score : 0..One, sentiment : Sentiments,
     sentiment_score : SentimentScores]

Determine ==
    /\ verdict = NoVerdict
    /\ verdict' = determine_classification(
                      thresholds, sv.toxicity_score, sv.spam_score,
                      [label |-> sv.sentiment, score |-> sv.sentiment_score])
    /\ UNCHANGED <<thresholds, reqvars, dbvars, faults, sv, social_poster,
                   unitvars>>

InitVerdict ==
    /\ thresholds = DefaultThresholds
    /\ pc = [i \in Ids |-> "idle"]
    /\ submission = [i \in Ids |-> NoSubmission]
    /\ classification_result = [i \in Ids |-> NoClassification]
    /\ action_result = [i \in Ids |-> NoAction]
    /\ response = [i \in Ids |-> NoResponse]
    /\ background_tasks = [i \in Ids |-> "none"]
    /\ content = {}
    /\ audit_log = {}
    /\ moderation_queue = {}
    /\ user_notifications = [k \in Authors \X ViolationTypes |-> 0]
    /\ user_violations = [k \in {} |-> 0]
    /\ model_metrics = {}
    /\ social_media_posts = {}
    /\ faults = 0
    /\ sv \in ScoreVectors
    /\ verdict = NoVerdict
    /\ social_poster = ConfiguredPoster
    /\ publish_call = NoPublishCall
    /\ publish_result = NoPublish
    /\ raw_submission = NoRawSubmission
    /\ validation = NoValidation
    /\ job = NoJob
    /\ IdleScorers

NextVerdict == Determine

SpecVerdict == InitVerdict /\ [][NextVerdict]_vars

\* ------------------------------------------------- threshold tuning -----
\* update_thresholds: self.thresholds.update(new_thresholds), one dict
\* operation; a key the dictionary did not have is added.
update_thresholds(th, new_thresholds) ==
    [k \in DOMAIN th \cup DOMAIN new_thresholds |->
        IF k \in DOMAIN new_thresholds THEN new_thresholds[k] ELSE th[k]]

\* Arguments the administrator passes to update_thresholds.
ThresholdUpdates ==
    {[toxicity_high |-> 65, spam_high |-> 60],
     [toxicity_medium |-> 50],
     [confidence_low |-> 75],
     [spam_medium |-> 40]}

\* Score vectors the tuned classifier is applied to.
TuneScores ==
    [toxicity_score : {20, 55, 70, 85}, spam_score : {15, 45, 65},
     sentiment : {"neutral"}]

Running == {"rule1", "rule2", "rule3", "rule5"}

\* _determine_classification is entered in the executor thread.
StartJob ==
    /\ job.pc = "idle"
    /\ job' = [pc |-> "rule1", seen |-> {thresholds}]
    /\ UNCHANGED <<thresholds, reqvars, dbvars, faults, sv, verdict,
                   social_poster, publish_call, publish_result,
                   raw_submission, validation, scorervars>>

\* update_thresholds on another thread; job.seen keeps the threshold sets
\* that were in force while the classification was running.
UpdateThresholds ==
    /\ \E new_thresholds \in ThresholdUpdates :
          /\ thresholds' = update_thresholds(thresholds, new_thresholds)
          /\ thresholds' # thresholds
    /\ job' = IF job.pc \in Running
                THEN [job EXCEPT !.seen = @ \cup {thresholds'}]
                ELSE job
    /\ UNCHANGED <<reqvars, dbvars, faults, sv, verdict, social_poster,
                   publish_call, publish_result, raw_submission, validation, scorervars>>

\* _determine_classification in the executor thread, one step per lookup
\* in self.thresholds: the thread can be switched out between two lookups.
DetermineStep ==
    /\ job.pc \in Running
    /\ LET toxicity_score == sv.toxicity_score
           spam_score     == sv.spam_score
           confidence ==
               One - Max(IF toxicity_score < 60 THEN Abs(toxicity_score - 50) ELSE 0,
                         IF spam_score < 60 THEN Abs(spam_score - 50) ELSE 0)
           return(v) == /\ verdict' = v
                        /\ job' = [job EXCEPT !.pc = "done"]
           goto(l)   == /\ verdict' = verdict
                        /\ job' = [job EXCEPT !.pc = l]
       IN  CASE job.pc = "rule1" ->
                  IF toxicity_score >= thresholds.toxicity_high
                    THEN return(<<"toxic", toxicity_score>>)
                    ELSE goto("rule2")
             [] job.pc = "rule2" ->
                  IF spam_score >= thresholds.spam_high
                    THEN return(<<"spam", spam_score>>)
                    ELSE goto("rule3")
             [] job.pc = "rule3" ->
                  IF toxicity_score >= thresholds.toxicity_medium
                    THEN return(<<"needs_review", Max(toxicity_score, 60)>>)
                  ELSE IF spam_score >= 50
                    THEN return(<<"needs_review", Max(spam_score, 60)>>)
                  ELSE goto("rule5")
             [] job.pc = "rule5" ->
                  IF confidence < thresholds.confidence_low
                    THEN return(<<"needs_review", confidence>>)
                    ELSE return(<<"acceptable", confidence>>)
    /\ UNCHANGED <<thresholds, reqvars, dbvars, faults, sv, social_poster,
                   publish_call, publish_result, raw_submission, validation, scorervars>>

InitTune ==
    /\ thresholds = DefaultThresholds
    /\ IdlePipeline
    /\ sv \in TuneScores
    /\ verdict = NoVerdict
    /\ social_poster = ConfiguredPoster
    /\ publish_call = NoPublishCall
    /\ publish_result = NoPublish
    /\ raw_submission = NoRawSubmission
    /\ validation = NoValidation
    /\ job = NoJob
    /\ IdleScorers

NextTune ==
    \/ StartJob
    \/ UpdateThresholds
    \/ DetermineStep

SpecTune == InitTune /\ [][NextTune]_vars

\* ------------------------------------------------ verdict engine claims --
Judged == verdict # NoVerdict

C3_MediumRules ==
    (Judged /\ sv.toxicity_score < 80 /\ sv.spam_score < 70)
        => /\ sv.toxicity_score >= 60
                => verdict = <<"needs_review",
                               IF sv.toxicity_score >= 60
                                 THEN sv.toxicity_score ELSE 60>>
           /\ (sv.toxicity_score < 60 /\ sv.spam_score >= 50)
                => verdict = <<"needs_review",
                               IF sv.spam_score >= 60
                                 THEN sv.spam_score ELSE 60>>

C3_Witness ==
    /\ Judged
    /\ sv.toxicity_score = 20
    /\ sv.spam_score = 55
    /\ verdict = <<"needs_review", 60>>

DispatchTable ==
    [c \in Classifications |->
        CASE c = "acceptable"   -> <<"approved_and_stored", FALSE>>
          [] c = "needs_review" -> <<"queued_for_review", FALSE>>
          [] c = "toxic"        -> <<"rejected_toxic", TRUE>>
          [] c = "spam"         -> <<"rejected_spam", TRUE>>]

HasVerdict(i) == classification_result[i].classification # "none"
Dispatched(i) == action_result[i].action # "none"
Answered(i) == response[i].status = 200

\* C5: apply_business_logic is total over the four classifications and maps
\* each to the action and notification flag of the table; the action_taken
\* and notification_sent returned to the caller are the pair of the returned
\* classification.
C5_DispatchTable ==
    \A i \in Ids :
        /\ HasVerdict(i) => classification_result[i].classification \in Classifications
        /\ pc[i] \in {"store", "metrics", "done"} => Dispatched(i)
        /\ Dispatched(i) =>
              <<action_result[i].action, action_result[i].notification_sent>>
                  = DispatchTable[classification_result[i].classification]
        /\ Answered(i) =>
              /\ response[i].classification \in Classifications
              /\ <<response[i].action_taken, response[i].notification_sent>>
                    = DispatchTable[response[i].classification]

C5_Witness ==
    /\ Answered(1) /\ Answered(2)
    /\ response[1].classification = "spam"
    /\ response[1].action_taken = "rejected_spam"
    /\ response[1].notification_sent
    /\ response[2].classification = "needs_review"
    /\ response[2].action_taken = "queued_for_review"
    /\ ~response[2].notification_sent

\* C6: a publish is scheduled for a submission only if its classification is
\* acceptable, and running the publish, whatever its outcome, leaves the
\* payload returned to the submitter as it was.
C6_PublishOnlyAcceptable ==
    /\ [](\A i \in Ids :
            /\ background_tasks[i] # "none"
                  => classification_result[i].classification = "acceptable"
            /\ \A row \in social_media_posts :
                  classification_result[row.content_id].classification = "acceptable")
    /\ [][\A i \in Ids :
            (background_tasks'[i] # background_tasks[i] /\ response[i].status # 0)
                => response'[i] = response[i]]_vars

C6_Witness ==
    /\ Answered(1) /\ Answered(2)
    /\ response[1].classification = "acceptable"
    /\ background_tasks[1] = "ran"
    /\ \E row \in social_media_posts :
          /\ row.content_id = 1
          /\ row.results["facebook"].success
          /\ ~row.results["twitter"].success
    /\ response[2].classification = "toxic"
    /\ background_tasks[2] = "none"

\* C7: a moderation-queue entry is created for a submission if and only if
\* its classification is needs_review; it carries the submission's
\* content_id, author_id and text, status pending, and the priority that
\* calculate_priority gives for the verdict's toxicity_score and confidence.
C7_QueueIffNeedsReview ==
    /\ \A row \in moderation_queue :
          LET i == row.content_id
          IN  /\ classification_result[i].classification = "needs_review"
              /\ row.author_id = submission[i].author_id
              /\ row.content_text = submission[i].content.text
              /\ row.status = "pending"
              /\ row.priority =
                    calculate_priority(
                        [toxicity_score |-> classification_result[i].toxicity_score,
                         confidence |-> classification_result[i].confidence])
    /\ \A i \in Ids :
          Dispatched(i) =>
              Cardinality({row \in moderation_queue : row.content_id = i})
                  = IF classification_result[i].classification = "needs_review"
                      THEN 1 ELSE 0

C7_Witness ==
    /\ Answered(1) /\ Answered(2)
    /\ response[1].classification = "needs_review"
    /\ response[2].classification = "acceptable"
    /\ moderation_queue =
          {[content_id |-> 1, author_id |-> "u2",
            content_text |-> "you people are rather dim",
            reason |-> "needs_human_review", priority |-> 4,
            status |-> "pending"]}

\* The count of a violation counter, 0 when there is no row.
CountOf(tbl, key) == IF key \in DOMAIN tbl THEN tbl[key] ELSE 0

\* C8: a dispatch of a toxic (spam) verdict writes exactly one notification
\* to the author with reason toxic (spam) and adds one to exactly the
\* counter (author_id, toxic) (resp. spam); a dispatch of an acceptable or
\* needs_review verdict writes no notification and changes no counter.
C8_NotifyAndCount ==
    [][\A i \in Ids :
        (pc[i] = "dispatch" /\ pc'[i] = "store") =>
            LET cat == classification_result[i].classification
                key == <<submission[i].author_id, cat>>
            IN  IF cat \in {"toxic", "spam"}
                  THEN /\ user_notifications' =
                            [user_notifications EXCEPT ![key] = @ + 1]
                       /\ \A k \in Authors \X ViolationTypes :
                            CountOf(user_violations', k) =
                                CountOf(user_violations, k)
                                    + (IF k = key THEN 1 ELSE 0)
                  ELSE /\ user_notifications' = user_notifications
                       /\ user_violations' = user_violations]_vars

C8_Witness ==
    /\ pc[1] = "done" /\ pc[2] = "done"
    /\ submission[1].author_id = "u1" /\ submission[2].author_id = "u1"
    /\ response[1].classification = "toxic"
    /\ response[2].classification = "toxic"
    /\ user_notifications[<<"u1", "toxic">>] = 2
    /\ CountOf(user_violations, <<"u1", "toxic">>) = 2
    /\ DOMAIN user_violations = {<<"u1", "toxic">>}

\* C9: when the toxicity or sentiment scorer fails while a submission is
\* scored, the classification is the safe verdict (needs_review, confidence
\* 0.0, toxicity_score 0.0, spam_score 0.0) and the request goes on to the
\* dispatcher instead of ending in an error.
C9_ScorerFailureSafeVerdict ==
    [][\A i \in Ids :
        (pc[i] = "classify" /\ pc'[i] \notin {"classify", "hung"}
           /\ faults' # faults) =>
            /\ pc'[i] = "dispatch"
            /\ classification_result'[i].classification = "needs_review"
            /\ classification_result'[i].confidence = 0
            /\ classification_result'[i].toxicity_score = 0
            /\ classification_result'[i].spam_score = 0]_vars

\* C10: once a verdict exists for a submission, no failure of a later step
\* aborts the request: it never enters the error path, and what the caller
\* receives is the completed result with the classification of the verdict.
C10_LaterFailuresInvisible ==
    \A i \in Ids :
        HasVerdict(i) =>
            /\ pc[i] \notin {"log_error", "failed"}
            /\ response[i].status # 0 =>
                  /\ response[i].status = 200
                  /\ response[i].classification =
                        classification_result[i].classification

\* ------------------------------------------------- persistence claims --
\* The content row and the content_classified audit row of request i, with
\* the verdict and the action of the request.
Persisted(i) ==
    /\ \E r \in content :
          /\ r.content_id = ContentId(i)
          /\ r.author_id = submission[i].author_id
          /\ r.classification = classification_result[i].classification
          /\ r.action_taken = action_result[i].action
    /\ \E a \in audit_log :
          /\ a.content_id = ContentId(i)
          /\ a.event_type = "content_classified"
          /\ a.classification = classification_result[i].classification
          /\ a.action = action_result[i].action

\* C11: whatever the classification, a request that gets past store_content
\* has its content row and its content_classified audit row, both with the
\* verdict and the action taken, and the step that returns success to the
\* caller starts from a state in which both rows are already stored.
C11_PersistedBeforeSuccess ==
    [][\A i \in Ids :
        /\ pc'[i] \in {"metrics", "done"} => Persisted(i)'
        /\ (~Answered(i) /\ Answered(i)') => Persisted(i)]_vars

C11_Witness ==
    \E i \in Ids :
        /\ Answered(i)
        /\ response[i].classification = "toxic"
        /\ Persisted(i)

\* ------------------------------------------------------ scorer timeout --
\* C12: a submission waiting for its scorer is answered in the end, also when
\* the scorer call never returns (after a bounded wait the safe verdict
\* needs_review with confidence 0.0 stands in and the request goes on).
C12_HungScorerAnswered ==
    \A i \in Ids : (pc[i] = "classify") ~> (response[i].status # 0)

\* ----------------------------------------------------- publish claims --
Enabled(name) ==
    IF name = "facebook" THEN social_poster.facebook_enabled
                         ELSE social_poster.twitter_enabled

\* C13: post_to_social_media returns without raising whatever the two
\* platforms and the insert of the results do, and the result recorded for
\* a platform is its own: success exactly when it is enabled and its post
\* went through, its own failure otherwise, whatever the other platform did.
C13_PublishFailuresIsolated ==
    publish_result.done =>
        /\ ~publish_result.raised
        /\ \A name \in Platforms :
              /\ publish_result.results[name].success
                    <=> (Enabled(name) /\ publish_call[name] = "posted")
              /\ publish_result.results[name].message =
                    IF ~Enabled(name) THEN "not configured"
                    ELSE CASE publish_call[name] = "posted" -> "Posted successfully"
                           [] publish_call[name] = "failed" -> "API error"
                           [] OTHER -> "exception"

C13_Witness ==
    /\ publish_result.done
    /\ social_poster.facebook_enabled /\ social_poster.twitter_enabled
    /\ publish_call.facebook = "raised"
    /\ publish_call.twitter = "posted"
    /\ ~publish_call.write_ok
    /\ ~publish_result.results["facebook"].success
    /\ publish_result.results["twitter"].success

\* --------------------------------------------------- violation counters --
\* The requests whose increment of the counter key has executed.
Violators(key) ==
    {i \in Ids : /\ Dispatched(i)
                 /\ submission[i].author_id = key[1]
                 /\ classification_result[i].classification = key[2]}

\* C14: in every interleaving of the requests, the counter of
\* (author_id, type) equals the number of toxic (spam) submissions of that
\* author whose increment has executed: it is created with 1, no increment
\* is lost, and no step of the pipeline lowers or removes a counter.
C14_CountersLinearized ==
    /\ [](\A key \in Authors \X ViolationTypes :
            /\ CountOf(user_violations, key) = Cardinality(Violators(key))
            /\ key \in DOMAIN user_violations => user_violations[key] >= 1)
    /\ [][\A key \in DOMAIN user_violations :
            /\ key \in DOMAIN user_violations'
            /\ user_violations'[key] >= user_violations[key]]_vars

C14_Witness ==
    /\ pc[1] = "store" /\ pc[2] = "store"
    /\ submission[1].author_id = "u1" /\ submission[2].author_id = "u1"
    /\ classification_result[1].classification = "toxic"
    /\ classification_result[2].classification = "toxic"
    /\ user_violations[<<"u1", "toxic">>] = 2

\* ----------------------------------------------------- tuning claims ----
\* C15: a classification that runs while update_thresholds is called gives
\* the verdict of one threshold set that was in force during the run: all
\* its rules used the values from before the update or all of them the
\* values from after it.
C15_ConsistentThresholds ==
    job.pc = "done" =>
        \E th \in job.seen :
            verdict = determine_classification(
                          th, sv.toxicity_score, sv.spam_score,
                          [label |-> sv.sentiment, score |-> 50])

\* The value in force for the medium-spam rule: the configured one, 0.5
\* when none was configured.
SpamMedium(th) ==
    IF "spam_medium" \in DOMAIN th THEN th["spam_medium"] ELSE 50

\* C20: a classification started after the thresholds were updated applies
\* the values now configured for toxicity_high, spam_high, toxicity_medium,
\* spam_medium and confidence_low, each in its own rule.
C20_AllThresholdsTunable ==
    (job.pc = "done" /\ job.seen = {thresholds}
        /\ thresholds # DefaultThresholds) =>
        verdict[1] =
            IF sv.toxicity_score >= thresholds.toxicity_high THEN "toxic"
            ELSE IF sv.spam_score >= thresholds.spam_high THEN "spam"
            ELSE IF sv.toxicity_score >= thresholds.toxicity_medium
              THEN "needs_review"
            ELSE IF sv.spam_score >= SpamMedium(thresholds)
              THEN "needs_review"
            ELSE IF verdict[2] < thresholds.confidence_low
              THEN "needs_review"
            ELSE "acceptable"

\* -------------------------------------------------- validation claims ---
\* C16: a submission that passes validation has, after trimming, content of
\* 1..5000 characters and an author_id of 1..100 characters, and a
\* submission whose trimmed content or author_id is outside these lengths
\* (empty or white space only, for one) is rejected with 422 and stores
\* nothing.
C16_ValidatedAfterTrim ==
    /\ validation.status = "valid" =>
          /\ len(validation.content) \in 1..MaxContentLength
          /\ len(validation.author_id) \in 1..MaxAuthorLength
    /\ (validation.status # "pending"
          /\ (\/ raw_submission.content.body \notin 1..MaxContentLength
              \/ raw_submission.author_id.body \notin 1..MaxAuthorLength)) =>
          /\ validation.status = "422"
          /\ content = {} /\ audit_log = {}

\* ------------------------------------------------------ benign content --
\* C17: the verdict engine applied to toxicity 0, spam 0 and neutral
\* sentiment returns acceptable with confidence 1.0.
C17_ZeroScoresAcceptable ==
    (Judged /\ sv.toxicity_score = 0 /\ sv.spam_score = 0
        /\ sv.sentiment = "neutral") =>
        verdict = <<"acceptable", One>>

\* C18: a request whose scorers return toxicity 0.05 and spam 0.02 is
\* answered with classification acceptable, action approved_and_stored and
\* notification_sent false, and a background publish is scheduled for it.
C18_BenignEndToEnd ==
    \A i \in Ids :
        (Answered(i)
            /\ response[i].toxicity_score = MockScores.toxicity_score
            /\ response[i].spam_score = MockScores.spam_score) =>
            /\ response[i].classification = "acceptable"
            /\ response[i].action_taken = "approved_and_stored"
            /\ ~response[i].notification_sent
            /\ background_tasks[i] # "none"

\* ------------------------------------------------ concurrent requests --
RowsOf(table, id) == {r \in table : r.content_id = id}

\* C19: with the thresholds unchanged and no collaborator failing, in every
\* interleaving of the requests each request goes on to success (it never
\* enters the error path and its next step can always be taken), its
\* verdict and its action are those of its own content, and once answered
\* it has exactly one content row, one audit row and one metric row, under
\* a content_id no other request has.
C19_RequestsIndependent ==
    faults = 0 =>
        \A i \in Ids :
            /\ pc[i] \notin {"log_error", "failed", "hung"}
            /\ pc[i] \in {"classify", "dispatch", "store", "metrics"}
                  => ENABLED Resumes(i)
            /\ HasVerdict(i) =>
                  classification_result[i] =
                      classify_sync(DefaultThresholds, submission[i].content,
                                    "none")
            /\ Dispatched(i) =>
                  action_result[i] =
                      ActionFor(classification_result[i].classification)
            /\ pc[i] = "done" =>
                  /\ Answered(i)
                  /\ \A j \in Ids \ {i} :
                        Answered(j) =>
                            response[j].content_id # response[i].content_id
                  /\ Cardinality(RowsOf(content, response[i].content_id)) = 1
                  /\ Cardinality(RowsOf(audit_log, response[i].content_id)) = 1
                  /\ Cardinality(RowsOf(model_metrics, response[i].content_id)) = 1
                  /\ \A r \in RowsOf(content, response[i].content_id) :
                        /\ r.author_id = submission[i].author_id
                        /\ r.content_text = submission[i].content.text
                        /\ r.classification = response[i].classification

C19_Witness ==
    /\ faults = 0
    /\ pc[1] = "metrics" /\ pc[2] = "done"
    /\ submission[1].content # submission[2].content
    /\ classification_result[1].classification = "acceptable"
    /\ response[2].classification = "toxic"
    /\ Cardinality(content) = 2
    /\ Cardinality(audit_log) = 2
    /\ Cardinality(model_metrics) = 1

\* --------------------------------------------------- spam scorer claims --
Scored == spam_result # NoScore

\* C21: the spam score is between 0 and 1, and a text with the same
\* capitalisation, punctuation and repetition but fewer matching patterns
\* never scores higher.
C21_SpamMonotoneClamped ==
    Scored =>
        /\ spam_result \in 0..One
        /\ \A fewer \in 0..NumPatterns :
              fewer <= spam_input.pattern_matches =>
                  detect_spam([spam_input EXCEPT !.pattern_matches = fewer])
                      <= spam_result

C21_Witness ==
    /\ Scored
    /\ spam_input.pattern_matches = 8
    /\ 2 * spam_input.upper > spam_input.length
    /\ spam_input.punct_count > 5
    /\ 10 * spam_input.distinct < 3 * spam_input.words
    /\ spam_result = One

\* C22: the spam score is min(P + C + Q + R, 1.0) with P = min(0.15 per
\* matching pattern, 0.5), C = 0.2 for a text of more than 10 characters
\* more than half of them uppercase, Q = 0.15 for more than 5 characters
\* among '!', '?', '.', and R = 0.2 for more than 3 words with fewer than
\* 0.3 distinct words per word; four matching patterns give 0.5 at least.
C22_SpamFormula ==
    Scored =>
        LET P == IF 15 * spam_input.pattern_matches < 50
                   THEN 15 * spam_input.pattern_matches ELSE 50
            C == IF spam_input.length > 10
                    /\ 2 * spam_input.upper > spam_input.length
                   THEN 20 ELSE 0
            Q == IF spam_input.punct_count > 5 THEN 15 ELSE 0
            R == IF spam_input.words > 3
                    /\ 10 * spam_input.distinct < 3 * spam_input.words
                   THEN 20 ELSE 0
        IN  /\ spam_result = IF P + C + Q + R < One THEN P + C + Q + R ELSE One
            /\ spam_input.pattern_matches >= 4 => spam_result >= 50

C22_Witness ==
    /\ Scored
    /\ spam_input.pattern_matches = 4
    /\ spam_input.punct_count = 5
    /\ spam_input.length = 40 /\ spam_input.upper = 20
    /\ spam_input.words = 10 /\ spam_input.distinct = 3
    /\ spam_result = 50

\* ------------------------------------------------------ priority claims --
\* C23: the priority is 5 for toxicity > 0.7 or confidence < 0.6, else 4 for
\* toxicity > 0.5 or confidence < 0.7, else 3 for toxicity > 0.3, else 2:
\* one of 2, 3, 4, 5 for every toxicity and confidence, never 1.
C23_PriorityRule ==
    priority_result # NoPriority =>
        LET t == priority_input.toxicity_score
            c == priority_input.confidence
        IN  /\ priority_result \in {2, 3, 4, 5}
            /\ priority_result = 5 <=> (t > 70 \/ c < 60)
            /\ priority_result = 4 <=>
                  (~(t > 70 \/ c < 60) /\ (t > 50 \/ c < 70))
            /\ priority_result = 3 <=>
                  (~(t > 70 \/ c < 60) /\ ~(t > 50 \/ c < 70) /\ t > 30)
            /\ priority_result = 2 <=> (t <= 30 /\ c >= 70)

C23_Witness ==
    /\ priority_input = [toxicity_score |-> 70, confidence |-> 65]
    /\ priority_result = 4

\* C27: with the default thresholds, every verdict needs_review of the
\* engine, and the safe default of a failed classification, gets priority
\* 4 or 5 from the priority calculator, never 2 or 3.
C27_QueuePriorityHigh ==
    /\ (Judged /\ verdict[1] = "needs_review") =>
          calculate_priority([toxicity_score |-> sv.toxicity_score,
                              confidence |-> verdict[2]]) \in {4, 5}
    /\ LET safe == classify_sync(thresholds, NoContent, "engine")
       IN  /\ safe.classification = "needs_review"
           /\ calculate_priority(safe) = 5

C27_Witness ==
    /\ Judged
    /\ sv.toxicity_score = 40 /\ sv.spam_score = 55
    /\ verdict = <<"needs_review", 60>>
    /\ calculate_priority([toxicity_score |-> sv.toxicity_score,
                           confidence |-> verdict[2]]) = 4

\* ------------------------------------------------------- threshold_used --
\* C24: the threshold_used of a response is the configured threshold of the
\* rule that decided the verdict: toxicity_high for toxic, spam_high for
\* spam, toxicity_medium or spam_medium (0.5) for a needs_review of rule 3
\* or 4, confidence_low for a needs_review of rule 5 and for acceptable.
C24_ThresholdOfWinningRule ==
    \A i \in Ids :
        Answered(i) =>
            response[i].threshold_used =
                CASE response[i].classification = "toxic" ->
                        thresholds.toxicity_high
                  [] response[i].classification = "spam" ->
                        thresholds.spam_high
                  [] response[i].classification = "needs_review" ->
                        IF response[i].toxicity_score >= thresholds.toxicity_medium
                          THEN thresholds.toxicity_medium
                        ELSE IF response[i].spam_score >= 50 THEN 50
                        ELSE thresholds.confidence_low
                  [] OTHER -> thresholds.confidence_low

C28_SentimentIrrelevant ==
    Judged =>
        \A label \in Sentiments, score \in SentimentScores :
            verdict = determine_classification(
                          thresholds, sv.toxicity_score, sv.spam_score,
                          [label |-> label, score |-> score])

C28_Witness ==
    /\ Judged
    /\ sv.sentiment = "negative" /\ sv.sentiment_score = One
    /\ sv.toxicity_score = 30 /\ sv.spam_score = 20
    /\ verdict = <<"acceptable", 70>>

\* ------------------------------------------- side effects and records ---
Finished(i) == pc[i] \in {"done", "failed"}
Classified(id) ==
    {a \in RowsOf(audit_log, id) : a.event_type = "content_classified"}
ContentOf(key) ==
    {r \in content : r.author_id = key[1] /\ r.classification = key[2]}

\* C26: once a request has finished, with success or with an error, every
\* moderation-queue entry of its submission has the content row and the
\* audit row of that submission, and once all requests have finished there
\* are no more notifications and no more counted violations of an author
\* and type than content rows of that author with that classification.
C26_NoOrphanSideEffects ==
    /\ \A i \in Ids :
          (Finished(i) /\ RowsOf(moderation_queue, ContentId(i)) # {}) =>
              /\ RowsOf(content, ContentId(i)) # {}
              /\ Classified(ContentId(i)) # {}
    /\ (\A i \in Ids : pc[i] = "idle" \/ Finished(i)) =>
          \A key \in Authors \X ViolationTypes :
              /\ user_notifications[key] <= Cardinality(ContentOf(key))
              /\ CountOf(user_violations, key) <= Cardinality(ContentOf(key))

\* C29: outside the transaction of store_content, a content_id has a
\* content row exactly when it has a content_classified audit row; a
\* store_content that failed has left neither.
C29_StoreAllOrNothing ==
    /\ [](\A i \in Ids :
            RowsOf(content, ContentId(i)) # {} <=> Classified(ContentId(i)) # {})
    /\ [][\A i \in Ids :
            (pc[i] = "store" /\ pc'[i] = "log_error") =>
                /\ content' = content
                /\ audit_log' = audit_log]_vars

C29_Witness ==
    \E i, j \in Ids :
        /\ pc[i] = "failed" /\ Dispatched(i)
        /\ RowsOf(content, ContentId(i)) = {}
        /\ Classified(ContentId(i)) = {}
        /\ RowsOf(audit_log, ContentId(i)) # {}
        /\ pc[j] = "done"
        /\ RowsOf(content, ContentId(j)) # {}
        /\ Classified(ContentId(j)) # {}

\* C30: the step that adds the publish of a request to its background
\* tasks ends with the content row and the audit row of the request stored,
\* and the step in which post_to_social_media runs starts with both stored.
C30_PublishAfterStore ==
    [][\A i \in Ids :
        /\ (background_tasks[i] = "none" /\ background_tasks'[i] = "scheduled")
              => Persisted(i)'
        /\ (background_tasks[i] = "scheduled" /\ background_tasks'[i] = "ran")
              => Persisted(i)]_vars

C30_Witness ==
    \E i, j \in Ids :
        /\ background_tasks[i] = "ran"
        /\ Persisted(i)
        /\ RowsOf(social_media_posts, ContentId(i)) # {}
        /\ pc[j] = "failed"
        /\ classification_result[j].classification = "acceptable"
        /\ background_tasks[j] = "none"
        /\ RowsOf(content, ContentId(j)) = {}
====
